---- MODULE Spec2Model ----
(***************************************************************************)
(* Ben-Or and JACM86 protocol engines, the replicas that run them, and the *)
(* controller's termination detection, as state machines.                  *)
(*                                                                         *)
(*   Spec          one engine (either algorithm) fed arbitrary well-formed *)
(*                 peer messages: the engines' process_message contract    *)
(*   SpecLoopback  the same engine, also handed its own snapshots          *)
(*   SpecBenOr     n Ben-Or replicas exchanging their snapshots            *)
(*   SpecValidity  the same replicas, all starting with one value, with    *)
(*                 broadcasts and deliveries that keep happening           *)
(*   SpecThree     three Ben-Or replicas with no fault                     *)
(*   SpecLemma     five Ben-Or replicas with one fault                     *)
(*   SpecJACM      n JACM86 replicas exchanging their snapshots            *)
(*   SpecCtl       the controller's threads and the replicas they drive    *)
(***************************************************************************)
EXTENDS Integers, Sequences, FiniteSets, TLC

(***************************************************************************)
(* Bounds of the model.                                                    *)
(***************************************************************************)
\* a Ben-Or engine stops being fed once its p reaches MaxP, and the peer
\* messages it is fed are for the phases 0 .. MaxP - 1
MaxP == 2
\* at most MaxFut messages are buffered per future phase
MaxFut == 1

VARIABLES
    algo,       \* the algorithm selected for the run: "BenOr", "JACM86", or "none"
    bo,         \* Ben-Or engines: replica id -> engine state
    net,        \* Ben-Or peer messages that have been broadcast and may be delivered
    ja,         \* JACM86 engines: replica id -> engine state
    jnet,       \* JACM86 peer messages that have been broadcast
    crashed,    \* replicas that are permanently down
    initial,    \* the replicas' initial values: replica id -> value
    last,       \* the last process_message call: its message and what it did
    params,             \* the controller's parameters and its fault-set draw
    doneServers,        \* controller.py doneServers: replica id -> BOOLEAN
    convergedServers,   \* controller.py convergedServers
    p_agreement,        \* whether serverStates holds the key 'p_agreement'
    doneServersLock,    \* whether the mutex is locked (a Python Lock has no owner)
    sockets,            \* replica id -> whether the controller's connection is open
    control,            \* replica id -> the supervisory thread of that replica
    listener,           \* the telemetry listener thread
    replica,            \* replica id -> the replica process as the controller sees it
    access              \* the last access to doneServers: by whom, under the lock or not

engineVars == <<algo, bo, net, ja, jnet, crashed, initial, last>>

ctlVars == <<params, doneServers, convergedServers, p_agreement, doneServersLock,
             sockets, control, listener, replica, access>>

vars == <<engineVars, ctlVars>>

(***************************************************************************)
(* BenOr.py                                                                *)
(***************************************************************************)
\* Python's None in v, w and the entries of R and S
None == -2

\* the configurations (servers, f) of the runs: the smallest with no fault and
\* the smallest with one, both with servers > 2 * f
BenOrConfigs == {[n |-> 2, f |-> 0], [n |-> 3, f |-> 1]}

\* __filter_list__ that removes nothing
FilterListKeeps(to_filter, remove) == to_filter

FilterList(to_filter, remove) == SelectSeq(to_filter, LAMBDA x : x \notin remove)

CountOf(l1, x) == Cardinality({k \in DOMAIN l1 : l1[k] = x})

\* numpy.unique yields the values in ascending order; the first one whose count
\* exceeds half of len(l1) (None entries included in the length) is returned
CheckMajority(l1) ==
    LET vals == {l1[k] : k \in DOMAIN l1} \ {None}
        maj == {x \in vals : 2 * CountOf(l1, x) > Len(l1)}
    IN  IF maj = {} THEN None ELSE CHOOSE x \in maj : \A y \in maj : x <= y

\* _reset that reseeds the own slot and leaves the others as filled
BenOrResetKeeps(nServers, server_id, v) ==
    [k \in 1 .. nServers |-> v]

\* R and S after _reset: a Python list indexed by server id (entry id is at id + 1)
BenOrReset(nServers, server_id, v) ==
    [k \in 1 .. nServers |-> IF k = server_id + 1 THEN v ELSE None]

BenOrNew(servers, server_id, f, coin) ==
    [nServers |-> servers, server_id |-> server_id, f |-> f,
     v |-> coin, w |-> None, p |-> 0, phase |-> 1,
     R |-> BenOrReset(servers, server_id, coin),
     S |-> BenOrReset(servers, server_id, coin),
     futures |-> [q \in 0 .. MaxP |-> <<>>],
     isDone |-> FALSE]

BenOrIsDone(e) == e.isDone

\* the loop over futures[p]: pop() takes the buffered messages from the end, and
\* each is stored in the slot of s_id, the sender of the message being processed
RECURSIVE BenOrDrain(_, _, _, _)
BenOrDrain(R, S, q, s_id) ==
    IF q = <<>> THEN [R |-> R, S |-> S]
    ELSE LET m == q[Len(q)]
             rest == SubSeq(q, 1, Len(q) - 1)
         IN  IF m.phase = 1
             THEN BenOrDrain([R EXCEPT ![s_id + 1] = m.v], S, rest, s_id)
             ELSE BenOrDrain(R, [S EXCEPT ![s_id + 1] = m.w], rest, s_id)

\* the value elected from S at the end of sub-phase 2
BenOrElect(S, coin) ==
    LET values == FilterList(S, {None, -1})
    IN  IF values # <<>> THEN values[1] ELSE coin

BenOrDecides(S, f) ==
    LET values == FilterList(S, {None, -1})
    IN  values # <<>> /\ CountOf(S, values[1]) > f

\* process_message: the engine after the call (eng), the value returned (ret),
\* and for the record of the call: the buffered messages it drained, the
\* numbers of filled entries of R and S at its threshold test, and S at that test
BenOrProcessMessage(e, msg, coin) ==
    LET s_id == msg.id
        q == e.futures[e.p]
        d == BenOrDrain(e.R, e.S, q, s_id)
        \* after the loop the name `message` is bound to the last message popped
        message == IF q # <<>> THEN q[1] ELSE msg
        fut1 == IF q # <<>> THEN [e.futures EXCEPT ![e.p] = <<>>] ELSE e.futures
        fut2 == IF message.p > e.p
                THEN [fut1 EXCEPT ![message.p] = Append(@, message)]
                ELSE fut1
        R2 == IF message.p = e.p /\ message.phase = 1
              THEN [d.R EXCEPT ![s_id + 1] = message.v] ELSE d.R
        S2 == IF message.p = e.p /\ message.phase = 2
              THEN [d.S EXCEPT ![s_id + 1] = message.w] ELSE d.S
        nR == Len(FilterList(R2, {None}))
        nS == Len(FilterList(S2, {None}))
        majority_value == CheckMajority(R2)
        newv == BenOrElect(S2, coin)
    IN  IF e.phase = 1 /\ nR >= e.nServers - e.f
        THEN [eng |-> [e EXCEPT !.R = R2, !.S = S2, !.futures = fut2,
                          !.w = IF majority_value # None THEN majority_value ELSE -1,
                          !.phase = 2],
              ret |-> FALSE, drained |-> q, nR |-> nR, nS |-> nS, S |-> S2]
        ELSE IF e.phase = 2 /\ nS >= e.nServers - e.f
        THEN [eng |-> [e EXCEPT !.v = newv,
                          !.isDone = IF BenOrDecides(S2, e.f) THEN TRUE ELSE @,
                          !.phase = 1,
                          !.R = BenOrReset(e.nServers, e.server_id, newv),
                          !.S = BenOrReset(e.nServers, e.server_id, newv),
                          !.w = None,
                          !.futures = fut2,
                          !.p = @ + 1],
              ret |-> TRUE, drained |-> q, nR |-> nR, nS |-> nS, S |-> S2]
        ELSE [eng |-> [e EXCEPT !.R = R2, !.S = S2, !.futures = fut2],
              ret |-> FALSE, drained |-> q, nR |-> nR, nS |-> nS, S |-> S2]

\* get_internal_state, with the sender's id: the peer message a replica broadcasts
BenOrSnapshot(e) ==
    [id |-> e.server_id, p |-> e.p, phase |-> e.phase, v |-> e.v, w |-> e.w]

(***************************************************************************)
(* Exact rational arithmetic for the real values of JACM86: <<num, den>>   *)
(* in lowest terms with den > 0.                                           *)
(***************************************************************************)
Abs(x) == IF x < 0 THEN -x ELSE x

RECURSIVE GCD(_, _)
GCD(a, b) == IF b = 0 THEN a ELSE GCD(b, a % b)

Rat(num, den) ==
    LET g == GCD(Abs(num), den) IN <<num \div g, den \div g>>

Zero == <<0, 1>>

RLeq(a, b) == a[1] * b[2] <= b[1] * a[2]

RLess(a, b) == a[1] * b[2] < b[1] * a[2]

RAdd(a, b) == Rat(a[1] * b[2] + b[1] * a[2], a[2] * b[2])

RSub(a, b) == Rat(a[1] * b[2] - b[1] * a[2], a[2] * b[2])

\* a / b for b > 0
RDiv(a, b) == Rat(a[1] * b[2], a[2] * b[1])

RECURSIVE RSum(_)
RSum(l) == IF l = <<>> THEN Zero ELSE RAdd(l[1], RSum(Tail(l)))

\* float('nan'): numpy's mean of an empty list
NaN == <<0, 0>>

\* numpy.mean
Mean(l) == IF l = <<>> THEN NaN ELSE RDiv(RSum(l), <<Len(l), 1>>)

RECURSIVE InsertSorted(_, _)
InsertSorted(x, l) ==
    IF l = <<>> THEN <<x>>
    ELSE IF RLeq(x, l[1]) THEN <<x>> \o l
    ELSE <<l[1]>> \o InsertSorted(x, Tail(l))

\* list.sort(), ascending
RECURSIVE Sorted(_)
Sorted(l) == IF l = <<>> THEN <<>> ELSE InsertSorted(l[1], Sorted(Tail(l)))

RMax(l) == Sorted(l)[Len(l)]

RMin(l) == Sorted(l)[1]

RECURSIVE IntPow(_, _)
IntPow(b, k) == IF k = 0 THEN 1 ELSE b * IntPow(b, k - 1)

(***************************************************************************)
(* JACM86.py                                                               *)
(***************************************************************************)
\* None in the entries of R
NoneJ == <<>>

\* p_end before the end of phase 0 (None)
PEndNone == 1000

\* ceil(log(0)/log(c)): numpy's log(0) is -inf
NegInf == -1000

\* ceil(log(x)/log(c)) is searched in -LogBound .. LogBound
LogBound == 6

JFilterList(to_filter) == SelectSeq(to_filter, LAMBDA x : x # NoneJ)

\* sorted_l1[f:-f], or the whole sorted list when f = 0
Trim(l1, f) ==
    IF f # 0 THEN SubSeq(Sorted(l1), f + 1, Len(l1) - f) ELSE Sorted(l1)

MeanTrim(l1, f) == Mean(Trim(l1, f))

\* __c__: floor((m - 1) / k) + 1
C(m, k) == ((m - 1) \div k) + 1

\* __select__: the elements at the indices 0, k, 2k, ...
Select(l1, k) ==
    IF l1 = <<>> THEN <<>>
    ELSE [j \in 1 .. ((Len(l1) - 1) \div k) + 1 |-> l1[(j - 1) * k + 1]]

\* ceil(log(dV / eps) / log(c)) for c >= 2: the least k with c^k >= dV / eps
CeilLog(dV, eps, c) ==
    LET x == RDiv(dV, eps)
        AtLeast(k) == IF k >= 0 THEN IntPow(c, k) * x[2] >= x[1]
                      ELSE x[2] >= x[1] * IntPow(c, -k)
    IN  IF dV = Zero THEN NegInf
        ELSE CHOOSE k \in (-LogBound) .. LogBound : AtLeast(k) /\ ~AtLeast(k - 1)

JACMReset(nServers, server_id, v) ==
    [k \in 1 .. nServers |-> IF k = server_id + 1 THEN v ELSE NoneJ]

JACMNew(servers, server_id, f, eps, v) ==
    [nServers |-> servers, server_id |-> server_id, f |-> f, eps |-> eps,
     v |-> v, p |-> 0, p_end |-> PEndNone,
     R |-> JACMReset(servers, server_id, v),
     done_servers |-> [k \in 1 .. servers |-> FALSE]]

JACMIsDone(e) == IF e.p_end = PEndNone THEN FALSE ELSE e.p > e.p_end

\* sum(self.done_servers)
DoneCount(done_servers) == Cardinality({k \in DOMAIN done_servers : done_servers[k]})

\* the value of phase 0 (mean of the 2f-trimmed list) and of a later phase
JACMValue(p, filtered_R, f) ==
    IF p = 0 THEN MeanTrim(filtered_R, 2 * f)
    ELSE Mean(Select(Trim(filtered_R, f), 2 * f))

\* whether the n - f threshold of process_message is met
JACMThreshold(e, R, done_servers) ==
    Len(JFilterList(R)) + DoneCount(done_servers) >= e.nServers - e.f

JACMProcessMessage(e, msg) ==
    LET s_id == msg.id
        done1 == IF msg.is_done THEN [e.done_servers EXCEPT ![s_id + 1] = TRUE]
                 ELSE e.done_servers
        R1 == IF msg.p = e.p /\ e.R[s_id + 1] = NoneJ
              THEN [e.R EXCEPT ![s_id + 1] = msg.v] ELSE e.R
        R2 == [k \in DOMAIN R1 |-> IF done1[k] THEN Zero ELSE R1[k]]
        filtered_R == JFilterList(R2)
        newv == JACMValue(e.p, filtered_R, e.f)
        dV == RSub(RMax(filtered_R), RMin(filtered_R))
    IN  IF JACMThreshold(e, R1, done1)
        THEN IF e.p = 0
             THEN [eng |-> [e EXCEPT !.done_servers = done1, !.v = newv,
                               !.p_end = CeilLog(dV, e.eps,
                                                 C(e.nServers - 3 * e.f, 2 * e.f)),
                               !.p = 1,
                               !.R = JACMReset(e.nServers, e.server_id, newv)],
                   ret |-> TRUE, contributors |-> {k \in DOMAIN R2 : R2[k] # NoneJ}]
             ELSE IF e.p <= e.p_end
             THEN [eng |-> [e EXCEPT !.done_servers = done1, !.v = newv,
                               !.p = @ + 1,
                               !.R = JACMReset(e.nServers, e.server_id, newv)],
                   ret |-> TRUE, contributors |-> {k \in DOMAIN R2 : R2[k] # NoneJ}]
             ELSE [eng |-> [e EXCEPT !.done_servers = done1, !.R = R2],
                   ret |-> FALSE, contributors |-> {}]
        ELSE [eng |-> [e EXCEPT !.done_servers = done1, !.R = R1],
              ret |-> FALSE, contributors |-> {}]

\* get_internal_state with the sender's id and its is_done(): the peer message
JACMSnapshot(e) ==
    [id |-> e.server_id, p |-> e.p, v |-> e.v, is_done |-> JACMIsDone(e)]

(***************************************************************************)
(* One engine of either algorithm, fed well-formed peer messages in any    *)
(* order, with repeats, from any peer and for any phase.                   *)
(***************************************************************************)
\* the peer messages a Ben-Or engine of n servers can be handed: a sub-phase 1
\* message carries v (the sender's w is still None), a sub-phase 2 message
\* carries w (its v, which no engine reads, is fixed)
BenOrMessages(n) ==
    [id : 0 .. n - 1, p : 0 .. MaxP - 1, phase : {1}, v : {0, 1}, w : {None}]
    \cup [id : 0 .. n - 1, p : 0 .. MaxP - 1, phase : {2}, v : {0}, w : {-1, 0, 1}]

\* the JACM86 run: servers >= 5 * f + 1 with one fault, eps, and the values in play
JACMConfigs == {[n |-> 6, f |-> 1]}

Eps == <<1, 2>>

JValues == {<<1, 1>>, <<2, 1>>}

\* the peer messages a JACM86 engine can be handed; a sender that is done has
\* left phase 0
JACMMessages(n) ==
    {m \in [id : 0 .. n - 1, p : 0 .. MaxP - 1, v : JValues, is_done : BOOLEAN] :
        m.is_done => m.p >= 1}

NoCall == [algo |-> "none"]

Idle == [j \in {} |-> 0]

\* doneServers has not been accessed by any thread
NoAccess == [by |-> "none", locked |-> TRUE]

\* a run of the engines alone: no controller
CtlIdle ==
    /\ params = Idle
    /\ doneServers = Idle
    /\ convergedServers = Idle
    /\ p_agreement = FALSE
    /\ doneServersLock = FALSE
    /\ sockets = Idle
    /\ control = Idle
    /\ listener = Idle
    /\ replica = Idle
    /\ access = NoAccess

InitBenOrEngine ==
    /\ algo = "BenOr"
    /\ \E c \in BenOrConfigs : \E i \in 0 .. c.n - 1 : \E coin \in {0, 1} :
         bo = [j \in {i} |-> BenOrNew(c.n, i, c.f, coin)]
    /\ ja = Idle

InitJACMEngine ==
    /\ algo = "JACM86"
    /\ \E c \in JACMConfigs : \E v \in JValues :
         ja = [j \in {0} |-> JACMNew(c.n, 0, c.f, Eps, v)]
    /\ bo = Idle

\* whether the engine can still be fed msg within the bounds
BenOrFeedable(e, msg) ==
    /\ e.p < MaxP
    /\ (e.futures[e.p] = <<>> /\ msg.p > e.p) => Len(e.futures[msg.p]) < MaxFut

BenOrCall(i, msg) ==
    /\ BenOrFeedable(bo[i], msg)
    /\ \E coin \in {0, 1} :
         LET r == BenOrProcessMessage(bo[i], msg, coin)
         IN  /\ bo' = [bo EXCEPT ![i] = r.eng]
             /\ last' = [algo |-> "BenOr", id |-> msg.id, stale |-> msg.p < bo[i].p,
                         changed |-> r.eng # bo[i], ret |-> r.ret,
                         drained |-> r.drained, S |-> r.S]

\* the model follows an engine no further once its v is NaN
JACMFeedable(e, msg) == e.v # NaN /\ msg.v # NaN

JACMCall(i, msg) ==
    LET r == JACMProcessMessage(ja[i], msg)
    IN  /\ JACMFeedable(ja[i], msg)
        /\ ja' = [ja EXCEPT ![i] = r.eng]
        /\ last' = [algo |-> "JACM86", id |-> msg.id, ret |-> r.ret,
                    contributors |-> r.contributors]

FeedBenOr ==
    /\ algo = "BenOr"
    /\ \E i \in DOMAIN bo :
         \E msg \in {m \in BenOrMessages(bo[i].nServers) : m.id # i} : BenOrCall(i, msg)
    /\ UNCHANGED <<ctlVars, algo, ja, net, jnet, crashed, initial>>

FeedJACM ==
    /\ algo = "JACM86"
    /\ \E i \in DOMAIN ja :
         \E msg \in {m \in JACMMessages(ja[i].nServers) : m.id # i} : JACMCall(i, msg)
    /\ UNCHANGED <<ctlVars, algo, bo, net, jnet, crashed, initial>>

Init ==
    /\ InitBenOrEngine \/ InitJACMEngine
    /\ net = {}
    /\ jnet = {}
    /\ crashed = {}
    /\ initial = Idle
    /\ last = NoCall
    /\ CtlIdle

Next == FeedBenOr \/ FeedJACM

Spec == Init /\ [][Next]_vars

\* the broadcast channel hands a replica its own datagram as well: the engine
\* is called with its own current snapshot
LoopbackBenOr ==
    /\ algo = "BenOr"
    /\ \E i \in DOMAIN bo : BenOrCall(i, BenOrSnapshot(bo[i]))
    /\ UNCHANGED <<ctlVars, algo, ja, net, jnet, crashed, initial>>

LoopbackJACM ==
    /\ algo = "JACM86"
    /\ \E i \in DOMAIN ja : JACMCall(i, JACMSnapshot(ja[i]))
    /\ UNCHANGED <<ctlVars, algo, bo, net, jnet, crashed, initial>>

NextLoopback == FeedBenOr \/ FeedJACM \/ LoopbackBenOr \/ LoopbackJACM

SpecLoopback == Init /\ [][NextLoopback]_vars

(***************************************************************************)
(* The Ben-Or replicas of one run. The controller downs exactly f of them  *)
(* for good at the start; the others broadcast their snapshot from time to *)
(* time, a datagram reaches any peer any number of times or is lost, and a *)
(* replica that is up feeds what it receives to its engine.                *)
(***************************************************************************)
Servers(c) == 0 .. c.n - 1

\* downedServers: f servers drawn without replacement
DownedChoices(c) == {d \in SUBSET Servers(c) : Cardinality(d) = c.f}

InitReplicas(values) ==
    /\ algo = "BenOr"
    /\ \E c \in BenOrConfigs :
         /\ initial \in [Servers(c) -> values]
         /\ bo = [i \in Servers(c) |-> BenOrNew(c.n, i, c.f, initial[i])]
         /\ crashed \in DownedChoices(c)
    /\ net = {}
    /\ ja = Idle
    /\ jnet = {}
    /\ last = NoCall
    /\ CtlIdle

InitBenOr == InitReplicas({0, 1})

\* every replica flips the same coin
InitValidity == \E x \in {0, 1} : InitReplicas({x})

\* a replica's periodic broadcast of its current snapshot; a downed replica's
\* engine never moves, so what it broadcast before it went down is its first one
Broadcast(i) ==
    /\ BenOrSnapshot(bo[i]) \notin net
    /\ net' = net \cup {BenOrSnapshot(bo[i])}
    /\ UNCHANGED <<ctlVars, algo, bo, ja, jnet, crashed, initial, last>>

\* a replica that is up receives a datagram of a peer
Deliver(i, m) ==
    /\ i \notin crashed
    /\ m.id # i
    /\ BenOrFeedable(bo[i], m)
    /\ \E coin \in {0, 1} :
         bo' = [bo EXCEPT ![i] = BenOrProcessMessage(bo[i], m, coin).eng]
    /\ UNCHANGED <<ctlVars, algo, net, ja, jnet, crashed, initial, last>>

\* a datagram that is never delivered is as good as lost
NextBenOr ==
    \/ \E i \in DOMAIN bo : Broadcast(i)
    \/ \E i \in DOMAIN bo : \E m \in net : Deliver(i, m)

SpecBenOr == InitBenOr /\ [][NextBenOr]_vars

\* the broadcast timers keep firing and datagrams that were sent keep arriving:
\* a run does not stop while a broadcast or a delivery would still change it
SpecValidity == InitValidity /\ [][NextBenOr]_vars /\ WF_vars(NextBenOr)

\* the run of three replicas with no fault: the smallest with three live replicas
ThreeConfig == [n |-> 3, f |-> 0]

InitThree ==
    /\ algo = "BenOr"
    /\ initial \in [Servers(ThreeConfig) -> {0, 1}]
    /\ bo = [i \in Servers(ThreeConfig) |->
                BenOrNew(ThreeConfig.n, i, ThreeConfig.f, initial[i])]
    /\ crashed = {}
    /\ net = {}
    /\ ja = Idle
    /\ jnet = {}
    /\ last = NoCall
    /\ CtlIdle

SpecThree == InitThree /\ [][NextBenOr]_vars

(***************************************************************************)
(* A Ben-Or run of five replicas with one fault, the smallest in which two *)
(* values can each be held by two live replicas. Replica 4 is downed       *)
(* before it has broadcast. Replicas 0 and 1 process what they receive in  *)
(* any order. Replicas 2 and 3 receive the datagrams of the live replicas  *)
(* in index order, once each, and their later inbound is held up.          *)
(***************************************************************************)
LemmaConfig == [n |-> 5, f |-> 1]

LemmaDowned == {4}

Followed == {0, 1}

\* the engine after process_message on each message of msgs in turn; the coin
\* is never flipped: S always holds the engine's own proposal
RECURSIVE FeedAll(_, _)
FeedAll(e, msgs) ==
    IF msgs = <<>> THEN e
    ELSE FeedAll(BenOrProcessMessage(e, Head(msgs), 0).eng, Tail(msgs))

\* the snapshots of the live replicas other than j, in index order
RECURSIVE OthersOf(_, _, _)
OthersOf(j, k, snap) ==
    IF k = LemmaConfig.n THEN <<>>
    ELSE IF k = j \/ k \in LemmaDowned THEN OthersOf(j, k + 1, snap)
    ELSE <<snap[k]>> \o OthersOf(j, k + 1, snap)

PeerStart(init) ==
    [k \in Servers(LemmaConfig) |-> BenOrNew(LemmaConfig.n, k, LemmaConfig.f, init[k])]

\* every live replica once it has the first snapshots of the other three
PeerPhase2(init) ==
    [k \in Servers(LemmaConfig) |->
        FeedAll(PeerStart(init)[k],
                OthersOf(k, 0, [i \in Servers(LemmaConfig) |->
                                   BenOrSnapshot(PeerStart(init)[i])]))]

\* and once it has their sub-phase 2 snapshots of phase 0
PeerNext(init) ==
    [k \in Servers(LemmaConfig) |->
        FeedAll(PeerPhase2(init)[k],
                OthersOf(k, 0, [i \in Servers(LemmaConfig) |->
                                   BenOrSnapshot(PeerPhase2(init)[i])]))]

\* the datagrams of replicas 2 and 3: a replica completes phase 0 only with
\* the sub-phase 2 snapshots of replicas 0 and 1
PeerMessages ==
    LET peers == Servers(LemmaConfig) \ (Followed \cup LemmaDowned)
        told == \A i \in Followed : bo[i].p > 0 \/ bo[i].phase = 2
    IN  {BenOrSnapshot(PeerStart(initial)[j]) : j \in peers}
        \cup {BenOrSnapshot(PeerPhase2(initial)[j]) : j \in peers}
        \cup (IF told THEN {BenOrSnapshot(PeerNext(initial)[j]) : j \in peers} ELSE {})

InitLemma ==
    /\ algo = "BenOr"
    /\ initial \in [Servers(LemmaConfig) -> {0, 1}]
    /\ bo = [i \in Followed |-> PeerStart(initial)[i]]
    /\ crashed = LemmaDowned
    /\ net = {}
    /\ ja = Idle
    /\ jnet = {}
    /\ last = NoCall
    /\ CtlIdle

\* replicas 0 and 1 receive each other's current snapshot or a datagram of
\* replica 2 or 3
NextLemma ==
    \E i \in DOMAIN bo :
        \E m \in {BenOrSnapshot(bo[k]) : k \in DOMAIN bo} \cup PeerMessages :
            Deliver(i, m)

SpecLemma == InitLemma /\ [][NextLemma]_vars

(***************************************************************************)
(* The JACM86 replicas of one run. No replica is downed for good (the f    *)
(* drawn servers are the Byzantine-eligible ones) and none lies here.      *)
(* Every snapshot a replica has had is on the network; a peer that is      *)
(* awake receives any of them, any number of times, or never.              *)
(***************************************************************************)
\* the replicas 0 .. MaxAwake - 1 process what they receive within the run;
\* the inbound of the others is held up (they have broadcast their first value)
MaxAwake == 3

\* the initial values of the run: one replica away from the others
JACMInitials(c) ==
    {[i \in Servers(c) |-> IF i = c.n - 1 THEN <<2, 1>> ELSE <<1, 1>>]}

InitJACM ==
    /\ algo = "JACM86"
    /\ \E c \in JACMConfigs :
         /\ initial \in JACMInitials(c)
         /\ ja = [i \in Servers(c) |-> JACMNew(c.n, i, c.f, Eps, initial[i])]
    /\ jnet = {JACMSnapshot(ja[i]) : i \in DOMAIN ja}
    /\ bo = Idle
    /\ net = {}
    /\ crashed = {}
    /\ last = NoCall
    /\ CtlIdle

JDeliver(i, m) ==
    /\ i < MaxAwake
    /\ m.id # i
    /\ JACMFeedable(ja[i], m)
    /\ LET r == JACMProcessMessage(ja[i], m)
       IN  /\ ja' = [ja EXCEPT ![i] = r.eng]
           /\ jnet' = jnet \cup {JACMSnapshot(r.eng)}
    /\ UNCHANGED <<ctlVars, algo, bo, net, crashed, initial, last>>

NextJACM == \E i \in DOMAIN ja : \E m \in jnet : JDeliver(i, m)

SpecJACM == InitJACM /\ [][NextJACM]_vars

(***************************************************************************)
(* controller.py: the supervisory threads (one per replica), the telemetry *)
(* listener and the replicas they drive, from the moment the main thread   *)
(* has started them. The replica processes are modelled from the           *)
(* specification's replica runtime.                                        *)
(***************************************************************************)
\* the replicas of a controller run
MaxServers == 2

\* params['servers'], the fault-set draw of the main thread (f = 1: the drawn
\* server is Byzantine-eligible if the algorithm supports it, else permanently
\* down), and the optional params['terminate_on_p_agreement']
CtlParams ==
    {[servers |-> MaxServers, downedServers |-> d, byzantineServers |-> b,
      terminate_on_p_agreement |-> t] :
        d \in {{}, {0}, {MaxServers - 1}}, b \in {{}, {0}}, t \in BOOLEAN}

\* format_message: the control frame (json.dumps of the three flags, padded)
format_message(isByzantine, isDown, isPermanent) ==
    [is_down |-> isDown, is_byzantine |-> isByzantine, is_done |-> isPermanent]

\* Python's all()
All(l) == \A k \in DOMAIN l : l[k]

\* the thread main starts for server i
ControlThread(p, i) ==
    IF i \in p.downedServers
    THEN [target |-> "downed_server", pc |-> "send", error |-> FALSE]
    ELSE [target |-> "unreliable_server", pc |-> "sleep", error |-> FALSE,
          byzantine |-> i \in p.byzantineServers,
          isDown |-> FALSE, isByzantine |-> FALSE]

InitCtl ==
    /\ algo = "none"
    /\ bo = Idle
    /\ ja = Idle
    /\ net = {}
    /\ jnet = {}
    /\ crashed = {}
    /\ initial = Idle
    /\ last = NoCall
    /\ params \in {p \in CtlParams : p.downedServers = {} \/ p.byzantineServers = {}}
    /\ doneServers = [i \in 0 .. params.servers - 1 |-> FALSE]
    /\ convergedServers = [i \in 0 .. params.servers - 1 |-> FALSE]
    /\ p_agreement = FALSE
    /\ doneServersLock = FALSE
    /\ sockets = [i \in 0 .. params.servers - 1 |-> TRUE]
    /\ control = [i \in 0 .. params.servers - 1 |-> ControlThread(params, i)]
    /\ listener = [pc |-> "recv"]
    /\ replica = [i \in 0 .. params.servers - 1 |->
                    [status |-> "running", is_down |-> FALSE, is_byzantine |-> FALSE]]
    /\ access = NoAccess

\* how connection.sendall on the stream of replica i can end: on a connection
\* the controller has closed it raises OSError; to a process that has gone the
\* kernel may still take the bytes or report the reset
SendOutcomes(i) ==
    IF ~sockets[i] THEN {"closed"}
    ELSE IF replica[i].status = "gone" THEN {"sent", "reset"}
    ELSE {"sent"}

\* the replica after it has read a control frame: the flags are overridden, and
\* a permanent frame makes it shut down
Receives(r, frame) ==
    IF r.status = "gone" THEN r
    ELSE [status |-> IF frame.is_done THEN "exiting" ELSE r.status,
          is_down |-> frame.is_down, is_byzantine |-> frame.is_byzantine]

\* unreliable_server, the inner loop: read the own done bit under the lock;
\* when it is set, send the UP frame and leave through finally
UnreliablePoll(i) ==
    /\ control[i].target = "unreliable_server"
    /\ control[i].pc = "sleep"
    /\ ~doneServersLock
    /\ IF doneServers[i]
       THEN \E o \in SendOutcomes(i) :
              IF o = "sent"
              THEN /\ replica' = [replica EXCEPT ![i] =
                           Receives(@, format_message(control[i].isByzantine, FALSE, FALSE))]
                   /\ sockets' = [sockets EXCEPT ![i] = FALSE]
                   /\ control' = [control EXCEPT ![i].pc = "returned"]
              ELSE /\ control' = [control EXCEPT ![i].pc = "except", ![i].error = TRUE]
                   /\ UNCHANGED <<replica, sockets>>
       ELSE UNCHANGED <<replica, sockets, control>>
    /\ access' = [by |-> "unreliable_server", locked |-> TRUE]
    /\ UNCHANGED <<engineVars, params, doneServers, convergedServers, p_agreement,
                   doneServersLock, listener>>

\* unreliable_server, after the wait: toggle isDown, draw isByzantine, send
UnreliableToggle(i) ==
    /\ control[i].target = "unreliable_server"
    /\ control[i].pc = "sleep"
    /\ \E draw \in BOOLEAN : \E o \in SendOutcomes(i) :
         LET t == control[i]
             isDown == ~t.isDown
             isByzantine == IF t.byzantine /\ ~t.isByzantine THEN draw ELSE t.isByzantine
             message == IF t.byzantine /\ ~t.isByzantine
                        THEN format_message(TRUE, isDown, FALSE)
                        ELSE IF t.isByzantine
                        THEN format_message(TRUE, isDown, FALSE)
                        ELSE format_message(FALSE, isDown, FALSE)
         IN  /\ control' = [control EXCEPT ![i] =
                   [t EXCEPT !.isDown = isDown, !.isByzantine = isByzantine,
                             !.pc = IF o = "sent" THEN "sleep" ELSE "except",
                             !.error = o # "sent"]]
             /\ replica' = IF o = "sent"
                           THEN [replica EXCEPT ![i] = Receives(@, message)]
                           ELSE replica
    /\ UNCHANGED <<engineVars, access, params, doneServers, convergedServers, p_agreement,
                   doneServersLock, sockets, listener>>

\* unreliable_server, except ConnectionResetError / BrokenPipeError: set the
\* done bit under the lock, then finally close the connection
UnreliableExcept(i) ==
    /\ control[i].target = "unreliable_server"
    /\ control[i].pc = "except"
    /\ ~doneServersLock
    /\ doneServers' = [doneServers EXCEPT ![i] = TRUE]
    /\ sockets' = [sockets EXCEPT ![i] = FALSE]
    /\ control' = [control EXCEPT ![i].pc = "returned"]
    /\ access' = [by |-> "unreliable_server", locked |-> TRUE]
    /\ UNCHANGED <<engineVars, params, convergedServers, p_agreement, doneServersLock,
                   listener, replica>>

\* downed_server: send the permanent frame and close; if sendall raises, the
\* handler logs and finally releases the lock this thread never acquired:
\* that unlocks the lock under its holder, or raises RuntimeError
DownedSend(i) ==
    /\ control[i].target = "downed_server"
    /\ control[i].pc = "send"
    /\ \E o \in SendOutcomes(i) :
         IF o = "sent"
         THEN /\ replica' = [replica EXCEPT ![i] =
                      Receives(@, format_message(FALSE, TRUE, TRUE))]
              /\ sockets' = [sockets EXCEPT ![i] = FALSE]
              /\ control' = [control EXCEPT ![i].pc = "acquire"]
              /\ UNCHANGED doneServersLock
         ELSE /\ control' = [control EXCEPT ![i].error = TRUE, ![i].pc =
                      IF doneServersLock THEN "returned" ELSE "raised"]
              /\ doneServersLock' = FALSE
              /\ UNCHANGED <<replica, sockets>>
    /\ UNCHANGED <<engineVars, access, params, doneServers, convergedServers, p_agreement,
                   listener>>

\* downed_server: acquire, set the done bit, release, return
DownedMark(i) ==
    /\ control[i].target = "downed_server"
    /\ control[i].pc = "acquire"
    /\ ~doneServersLock
    /\ doneServers' = [doneServers EXCEPT ![i] = TRUE]
    /\ control' = [control EXCEPT ![i].pc = "returned"]
    /\ access' = [by |-> "downed_server", locked |-> TRUE]
    /\ UNCHANGED <<engineVars, params, convergedServers, p_agreement, doneServersLock,
                   sockets, listener, replica>>

\* `for dserver in doneServers: doneServers[dserver] = True`: the loop variable
\* is the entry, a bool, and indexes the list as 0 or 1
RECURSIVE TerminateLoop(_, _)
TerminateLoop(done, k) ==
    IF k \notin DOMAIN done THEN done
    ELSE TerminateLoop([done EXCEPT ![IF done[k] THEN 1 ELSE 0] = TRUE], k + 1)

\* the telemetry a replica can emit: its periodic snapshot while it is up, and a
\* last one, with is_done, when it shuts down
Telemetry(i) ==
    IF replica[i].status = "exiting"
    THEN {[id |-> i, is_done |-> TRUE, converged |-> c] : c \in BOOLEAN}
    ELSE IF replica[i].status \in {"running", "done"} /\ ~replica[i].is_down
    THEN {[id |-> i, is_done |-> replica[i].status = "done", converged |-> c] :
             c \in BOOLEAN}
    ELSE {}

\* process_server_states, from recvfrom to the lock: the convergence block, which
\* runs without the lock
ListenerReceive(i) ==
    /\ listener.pc = "recv"
    /\ \E message \in Telemetry(i) :
         LET conv == IF message.converged
                     THEN [convergedServers EXCEPT ![message.id] = TRUE]
                     ELSE convergedServers
         IN  /\ listener' = [pc |-> "acquire", message |-> message]
             /\ IF ~p_agreement
                THEN /\ convergedServers' = conv
                     /\ doneServers' = IF params.terminate_on_p_agreement
                                       THEN TerminateLoop(doneServers, 0)
                                       ELSE doneServers
                     /\ p_agreement' = All(conv)
                ELSE UNCHANGED <<convergedServers, doneServers, p_agreement>>
    /\ replica' = [replica EXCEPT ![i].status =
                      IF @ = "exiting" THEN "gone" ELSE @]
    /\ access' = IF ~p_agreement /\ params.terminate_on_p_agreement
                 THEN [by |-> "process_server_states", locked |-> FALSE]
                 ELSE access
    /\ UNCHANGED <<engineVars, params, doneServersLock, sockets, control>>

\* process_server_states on a datagram that is no state snapshot: bytes that
\* json.loads rejects raise out of the loop, nothing catches them and the thread
\* ends; a frame without "id" is skipped; a ready frame sets readyServers, which
\* no thread reads once main has started the run
ListenerDatagram(kind) ==
    /\ listener.pc = "recv"
    /\ listener' = IF kind = "unparseable" THEN [pc |-> "raised"] ELSE listener
    /\ UNCHANGED <<engineVars, access, params, doneServers, convergedServers,
                   p_agreement, doneServersLock, sockets, control, replica>>

\* the servers the shutdown broadcast still has to visit, from k on
NextTarget(k) ==
    LET rest == {j \in k .. params.servers - 1 : j \notin params.downedServers}
    IN  IF rest = {} THEN params.servers
        ELSE CHOOSE j \in rest : \A j2 \in rest : j <= j2

\* process_server_states, under the lock: record is_done, test all(doneServers)
ListenerLocked ==
    /\ listener.pc = "acquire"
    /\ ~doneServersLock
    /\ LET done == IF listener.message.is_done
                   THEN [doneServers EXCEPT ![listener.message.id] = TRUE]
                   ELSE doneServers
       IN  /\ doneServers' = done
           /\ IF All(done)
              THEN /\ doneServersLock' = TRUE
                   /\ listener' = [pc |-> "broadcast", ip |-> NextTarget(0)]
              ELSE /\ doneServersLock' = FALSE
                   /\ listener' = [pc |-> "recv"]
    /\ access' = [by |-> "process_server_states", locked |-> TRUE]
    /\ UNCHANGED <<engineVars, params, convergedServers, p_agreement, sockets,
                   control, replica>>

\* process_server_states, the shutdown broadcast: one sendall per server that
\* is not in downedServers, then break; finally releases the lock, also when
\* sendall raises, which ends the thread
ListenerBroadcast ==
    /\ listener.pc = "broadcast"
    /\ IF listener.ip = params.servers
       THEN /\ listener' = [pc |-> "returned"]
            /\ doneServersLock' = FALSE
            /\ UNCHANGED replica
       ELSE \E o \in SendOutcomes(listener.ip) :
              IF o = "sent"
              THEN /\ replica' = [replica EXCEPT ![listener.ip] =
                           Receives(@, format_message(FALSE, TRUE, TRUE))]
                   /\ listener' = [listener EXCEPT !.ip = NextTarget(@ + 1)]
                   /\ UNCHANGED doneServersLock
              ELSE /\ listener' = [pc |-> "raised"]
                   /\ doneServersLock' = FALSE
                   /\ UNCHANGED replica
    /\ UNCHANGED <<engineVars, access, params, doneServers, convergedServers, p_agreement,
                   sockets, control>>

\* the engine of a replica becomes done
ReplicaDone(i) ==
    /\ replica[i].status = "running"
    /\ replica' = [replica EXCEPT ![i].status = "done"]
    /\ UNCHANGED <<engineVars, access, params, doneServers, convergedServers, p_agreement,
                   doneServersLock, sockets, control, listener>>

\* a replica process ends: after its shutdown (its last telemetry is lost), or
\* by failing
ReplicaGone(i) ==
    /\ replica[i].status # "gone"
    /\ replica' = [replica EXCEPT ![i].status = "gone"]
    /\ UNCHANGED <<engineVars, access, params, doneServers, convergedServers, p_agreement,
                   doneServersLock, sockets, control, listener>>

ControlStep(i) ==
    \/ UnreliablePoll(i)
    \/ UnreliableToggle(i)
    \/ UnreliableExcept(i)
    \/ DownedSend(i)
    \/ DownedMark(i)

NextCtl ==
    \/ \E i \in DOMAIN control : ControlStep(i)
    \/ \E i \in DOMAIN replica : ListenerReceive(i)
    \/ \E kind \in {"unparseable", "no_id", "ready"} : ListenerDatagram(kind)
    \/ ListenerLocked
    \/ ListenerBroadcast
    \/ \E i \in DOMAIN replica : ReplicaDone(i)
    \/ \E i \in DOMAIN replica : ReplicaGone(i)

\* every thread keeps being scheduled, the lock is handed to each thread that
\* waits for it, and telemetry that keeps being sent keeps arriving
FairCtl ==
    /\ \A i \in 0 .. MaxServers - 1 : SF_vars(ControlStep(i))
    /\ SF_vars(\E i \in 0 .. MaxServers - 1 : ListenerReceive(i))
    /\ SF_vars(ListenerLocked)
    /\ WF_vars(ListenerBroadcast)

SpecCtl == InitCtl /\ [][NextCtl]_vars /\ FairCtl

(***************************************************************************)
(* Properties of the replica systems.                                      *)
(***************************************************************************)
Live == DOMAIN bo \ crashed

\* C1 (Ben-Or agreement): whenever two honest replicas both have
\* isDone = True, they hold the same value v.
BenOrAgreement ==
    \A i \in Live : \A j \in Live :
        (bo[i].isDone /\ bo[j].isDone) => bo[i].v = bo[j].v

InitialMin == RMin([k \in 1..Cardinality(DOMAIN initial) |-> initial[k - 1]])
InitialMax == RMax([k \in 1..Cardinality(DOMAIN initial) |-> initial[k - 1]])

\* C3 (JACM86 validity): at every phase the value v of every honest
\* replica lies between the minimum and the maximum of the honest
\* replicas' initial values.
JACMValidity ==
    algo = "JACM86" =>
        \A i \in DOMAIN ja :
            /\ ja[i].v # NaN
            /\ RLeq(InitialMin, ja[i].v)
            /\ RLeq(ja[i].v, InitialMax)

\* |a - b| <= eps as the floats compare it: false when either is not a number
Within(a, b, eps) ==
    /\ a # NaN
    /\ b # NaN
    /\ RLeq(RSub(a, b), eps)
    /\ RLeq(RSub(b, a), eps)

\* C4 (JACM86 epsilon-agreement): whenever two honest replicas are both
\* done, their values differ by at most eps.
JACMAgreement ==
    \A i \in DOMAIN ja : \A j \in DOMAIN ja :
        (JACMIsDone(ja[i]) /\ JACMIsDone(ja[j])) =>
            Within(ja[i].v, ja[j].v, ja[i].eps)

\* C2 (Ben-Or validity, as stated): when all replicas start with the same
\* value x, every honest replica eventually becomes done, with v = x.
BenOrValidity ==
    <>(\A i \in Live : bo[i].isDone /\ bo[i].v = initial[i])

\* The safety half of validity: when all replicas start with the same
\* value x, every honest replica holds v = x throughout, and it is done
\* exactly from the call that completes phase 0 on.
BenOrValiditySafe ==
    \A i \in Live :
        /\ bo[i].v = initial[i]
        /\ bo[i].isDone <=> bo[i].p >= 1

(***************************************************************************)
(* Properties of one engine under arbitrary calls.                         *)
(***************************************************************************)
\* C5 (future-buffered messages): a call that drains buffered messages, and
\* stays in the phase, leaves the value of each drained message in the slot
\* of that message's own sender: R for sub-phase tag 1, S for tag 2.
FuturesAppliedToSender ==
    (last.algo = "BenOr" /\ ~last.ret) =>
        \A i \in DOMAIN bo : \A k \in DOMAIN last.drained :
            LET b == last.drained[k]
            IN  IF b.phase = 1
                THEN bo[i].R[b.id + 1] = b.v
                ELSE bo[i].S[b.id + 1] = b.w

\* C6 (slots written once): while an engine stays in its phase p, a slot of
\* R (both engines) or S (Ben-Or) that is filled keeps its value.
SlotsWrittenOnce ==
    [][/\ \A i \in DOMAIN bo :
            bo'[i].p = bo[i].p =>
                \A k \in 1 .. bo[i].nServers :
                    /\ bo[i].R[k] # None => bo'[i].R[k] = bo[i].R[k]
                    /\ bo[i].S[k] # None => bo'[i].S[k] = bo[i].S[k]
       /\ \A i \in DOMAIN ja :
            ja'[i].p = ja[i].p =>
                \A k \in 1 .. ja[i].nServers :
                    ja[i].R[k] # NoneJ => ja'[i].R[k] = ja[i].R[k]]_vars

\* C8 (stale messages): a Ben-Or call whose message has p lower than the
\* engine's p leaves the engine as it was and returns false.
StaleDiscarded ==
    (last.algo = "BenOr" /\ last.stale) => (~last.changed /\ ~last.ret)

\* C9 (phase counter): in both engines p never decreases across a call, and
\* a call that increments p leaves every slot of another server empty and
\* the own slot of R holding the new v.
PhaseMonotoneAndCleared ==
    [][/\ \A i \in DOMAIN bo :
            /\ bo'[i].p >= bo[i].p
            /\ bo'[i].p > bo[i].p =>
                 \A k \in 1 .. bo[i].nServers :
                     IF k = i + 1
                     THEN bo'[i].R[k] = bo'[i].v
                     ELSE bo'[i].R[k] = None /\ bo'[i].S[k] = None
       /\ \A i \in DOMAIN ja :
            /\ ja'[i].p >= ja[i].p
            /\ ja'[i].p > ja[i].p =>
                 \A k \in 1 .. ja[i].nServers :
                     IF k = i + 1
                     THEN ja'[i].R[k] = ja'[i].v
                     ELSE ja'[i].R[k] = NoneJ]_vars

\* a Ben-Or engine has incremented p twice, the last call being one of them
PhaseIncremented ==
    /\ last.algo = "BenOr"
    /\ last.ret
    /\ \E i \in DOMAIN bo : bo[i].p = 2 /\ bo[i].R[i + 1] = bo[i].v

\* C7 (own slot): between calls the own slot of an engine equals its
\* proposal: R[self] = v in both engines and S[self] = v in Ben-Or.
OwnSlotIsProposal ==
    /\ \A i \in DOMAIN bo : bo[i].R[i + 1] = bo[i].v /\ bo[i].S[i + 1] = bo[i].v
    /\ \A i \in DOMAIN ja : ja[i].R[i + 1] = ja[i].v

(***************************************************************************)
(* Properties of the controller.                                           *)
(***************************************************************************)
\* C10 (termination detection): once every entry of doneServers is true,
\* the listener eventually completes the shutdown broadcast and leaves its
\* loop through break.
TerminationDetected ==
    (algo = "none" /\ All(doneServers)) ~> (listener.pc = "returned")

\* C11 (mutex discipline): every read and every write of doneServers, by
\* any controller thread, happens while that thread holds doneServersLock.
DoneVectorUnderLock == access.locked

\* C12 (control transport error): a supervisory thread whose send failed
\* with a connection error, and which has ended, has set the done bit of
\* its replica, and it has not ended by raising out of its handler.
SendErrorMarksDone ==
    \A i \in DOMAIN control :
        (control[i].error /\ control[i].pc \in {"returned", "raised"}) =>
            (doneServers[i] /\ control[i].pc = "returned")

\* C13 (malformed telemetry): a frame that fails to parse, or that has no
\* id, changes neither the done nor the converged vector, and leaves the
\* listener receiving.
MalformedDropped ==
    [][(\E kind \in {"unparseable", "no_id"} : ListenerDatagram(kind)) =>
          /\ listener' = listener
          /\ UNCHANGED <<doneServers, convergedServers, p_agreement>>]_vars

\* C14 (terminate_on_p_agreement): with the option set, the listener's
\* convergence block sets a done bit only when every replica has been
\* marked converged, and when it records p_agreement every done bit is set.
ForcedDoneOnAgreement ==
    [][(params.terminate_on_p_agreement /\ listener.pc = "recv"
            /\ listener'.pc = "acquire") =>
          /\ doneServers' # doneServers => All(convergedServers')
          /\ (~p_agreement /\ p_agreement') => All(doneServers')]_vars

\* C15 (sticky Byzantine flag): once a replica has been sent a frame with
\* is_byzantine = true, a later frame its control loop sends it carries
\* is_byzantine = true as well.
ByzantineSticky ==
    [][\A i \in DOMAIN control :
          (control'[i] # control[i] /\ replica[i].is_byzantine) =>
              replica'[i].is_byzantine]_vars

\* C16 (shutdown broadcast): the listener sends the shutdown frame only on
\* connections that are open.
BroadcastOnOpenStreams ==
    [][(listener.pc = "broadcast" /\ listener.ip \in DOMAIN sockets
            /\ listener' # listener) =>
          sockets[listener.ip]]_vars

\* C17: a Ben-Or engine leaves sub-phase 1 only in a call at whose end at least
\* n - f entries of R are filled, and then p is unchanged; it advances p only
\* in a call that it began in sub-phase 2 with at least n - f entries of S filled
\* at the test, and then it is in sub-phase 1 of the next phase with w cleared:
\* no call does both
Filled(l) == Cardinality({k \in DOMAIN l : l[k] # None})

BenOrThresholds ==
    [][\A i \in DOMAIN bo :
          LET e == bo[i]
              e2 == bo'[i]
          IN  /\ (e.phase = 1 /\ e2.phase = 2) =>
                    /\ Filled(e2.R) >= e.nServers - e.f
                    /\ e2.p = e.p
              /\ e2.p # e.p =>
                    /\ e.phase = 2
                    /\ Filled(last'.S) >= e.nServers - e.f
                    /\ e2.p = e.p + 1 /\ e2.phase = 1 /\ e2.w = None
              /\ (e.phase = 2 /\ e2.phase = 1) => e2.p = e.p + 1]_vars

\* a call completed sub-phase 2 on the threshold, with an entry of S still empty
ThresholdCrossed ==
    /\ last.algo = "BenOr" /\ last.ret
    /\ \E i \in DOMAIN bo :
          /\ bo[i].f > 0
          /\ Filled(last.S) = bo[i].nServers - bo[i].f

\* C18 (key lemma): no two replicas that are in sub-phase 2 of the same phase p
\* hold w = 0 and w = 1
BenOrKeyLemma ==
    \A i \in DOMAIN bo : \A j \in DOMAIN bo :
        (bo[i].p = bo[j].p /\ bo[i].phase = 2 /\ bo[j].phase = 2
            /\ bo[i].w \in {0, 1} /\ bo[j].w \in {0, 1})
            => bo[i].w = bo[j].w

\* C19 (decision is final): in both engines a call of process_message on an
\* engine whose is_done() is true leaves is_done() true and v unchanged
DecisionFinal ==
    [][/\ \A i \in DOMAIN bo :
             BenOrIsDone(bo[i]) => (BenOrIsDone(bo'[i]) /\ bo'[i].v = bo[i].v)
       /\ \A i \in DOMAIN ja :
             JACMIsDone(ja[i]) => (JACMIsDone(ja'[i]) /\ ja'[i].v = ja[i].v)]_vars

\* C20: whenever a JACM86 call recomputes v and advances p, at least n - f
\* distinct replica ids, each filled in R or marked done, contributed to the
\* phase, and the list left after trimming was not empty (v is a number)
ContributorsSuffice ==
    (last.algo = "JACM86" /\ last.ret) =>
        \A i \in DOMAIN ja :
            /\ Cardinality(last.contributors) >= ja[i].nServers - ja[i].f
            /\ ja[i].v # NaN

\* C21 (mutex discipline): the done-vector mutex, when held, is released only
\* by its holder (the listener, the one thread that holds it across steps), and
\* no thread ends on the release of a mutex that nobody holds
LockReleasedByHolder ==
    [][/\ (doneServersLock /\ ~doneServersLock') =>
             (listener.pc = "broadcast" /\ listener' # listener)
       /\ \A i \in DOMAIN control :
             control[i].pc # "raised" => control'[i].pc # "raised"]_vars

====
